---- MODULE Spec2Model ----
(***************************************************************************)
(* Model of the football automation bot (src/main.py): FootballAPI,        *)
(* ContentGenerator, TelegramClient, FacebookClient and FootballBot.run(). *)
(*                                                                         *)
(* Encoding of Python values:                                              *)
(*   - an optional value (dict.get(k, None)) is a sequence of length <= 1: *)
(*     None is <<>>, the value v is <<v>>;                                 *)
(*   - a kickoff stamp Esd is the HHMM part of the provider's              *)
(*     YYYYMMDDHHmmss number (the date is today's, the seconds are 00);    *)
(*     a stamp whose fields are out of range is what strptime rejects;     *)
(*   - a formatted time "HH:MM GMT" is the number HH*100+MM, and the       *)
(*     placeholder string "TBD" is the number TBD;                         *)
(*   - a message is a record of the template's title, the values           *)
(*     interpolated into it, and the set of links it contains.             *)
(***************************************************************************)
EXTENDS Integers, Sequences, FiniteSets, TLC

VARIABLES
    pc,             \* position of the process in main()/run()
    now,            \* now_gmt of the current run, minutes since midnight
    posted_matches, \* FootballBot.posted_matches of the current process
    matches,        \* run(): matches (optional list)
    live_matches,   \* run(): live_matches (optional list)
    idx,            \* index of the posting loop being executed
    requests,       \* session.get calls issued by the current run
    response,       \* the provider's reply to list-by-date in the current run
    outbox,         \* requests.post calls issued by the current run
    runs,           \* number of processes started so far
    audit,          \* whether deliveries are recorded across processes
    reported,       \* alerts and results delivered by earlier processes and by this one
    gen_in,         \* content generator harness: input
    gen_out         \* content generator harness: output

vars == <<pc, now, posted_matches, matches, live_matches, idx, requests,
          response, outbox, runs, audit, reported, gen_in, gen_out>>

(***************************************************************************)
(* Bounds                                                                  *)
(***************************************************************************)
MaxRuns == 2
MaxStages == 2
MaxAuditStages == 1
MaxRepeat == 8

(***************************************************************************)
(* Constants of the program                                                *)
(***************************************************************************)
None == <<>>
Some(v) == <<v>>
TBD == -1

AFFILIATE_LINKS == {"https://stake.com", "https://linebet.com", "https://ma-1xbet.com"}
TELEGRAM_CHANNEL_LINK == "https://t.me/+xAQ3DCVJa8A2ZmY8"

MAJOR_COMPETITIONS == {"Premier League", "La Liga", "Serie A", "Bundesliga",
                       "Ligue 1", "Champions League", "Europa League",
                       "World Cup", "Euro", "FA Cup", "Copa del Rey"}

SeqsUpTo(S, n) == UNION {[1..k -> S] : k \in 0..n}

RECURSIVE SelectIdx(_, _, _)
\* list comprehension [x for x in s if P(x)]
SelectIdx(s, P(_), i) ==
    IF i > Len(s) THEN <<>>
    ELSE (IF P(s[i]) THEN <<s[i]>> ELSE <<>>) \o SelectIdx(s, P, i + 1)

Filter(s, P(_)) == SelectIdx(s, P, 1)

\* s[:n]
Take(s, n) == SubSeq(s, 1, IF Len(s) < n THEN Len(s) ELSE n)

\* "if x" on an optional number
Truthy(x) == x /= None /\ x[1] /= 0

(***************************************************************************)
(* Provider payloads                                                       *)
(***************************************************************************)
CompetitionNames == {"Premier League", "La Liga", "Club Friendlies"}

\* the substring test "major.lower() in competition_lower" on CompetitionNames
Contains(competition, major) == competition = major

Team(nm, rnk) == [Nm |-> nm, Rnk |-> rnk]

Event(eid, t1, t2, eps, esd, tr1, tr2) ==
    [Eid |-> eid, T1 |-> t1, T2 |-> t2, Eps |-> eps, Esd |-> esd,
     Tr1 |-> tr1, Tr2 |-> tr2]

Stage(snm, events) == [Snm |-> snm, Events |-> events]
(***************************************************************************)
(* FootballAPI                                                             *)
(***************************************************************************)
\* datetime.strptime(str(time_str)[:14], "%Y%m%d%H%M%S"): the minute of the
\* day, or ValueError (FALSE) when a field is out of range
StampValid(n) == n >= 0 /\ n \div 100 < 24 /\ n % 100 < 60
StampMinutes(n) == (n \div 100) * 60 + (n % 100)

\* dt.strftime("%H:%M GMT") of a minute of the day
FormatTime(t) == (t \div 60) * 100 + (t % 60)

\* mutant of _parse_time: the stamp is formatted without being validated
_parse_time_Unchecked(time_str) ==
    IF time_str = None THEN TBD ELSE FormatTime(StampMinutes(time_str[1]))

_parse_time(time_str) ==
    IF time_str = None THEN TBD
    ELSE IF StampValid(time_str[1]) THEN FormatTime(StampMinutes(time_str[1]))
    ELSE TBD

_get_match_status(event) ==
    LET eps == event.Eps IN
    CASE eps = "NS"   -> "Upcoming"
      [] eps = "HT"   -> "Half Time"
      [] eps = "1H"   -> "First Half"
      [] eps = "2H"   -> "Second Half"
      [] eps = "FT"   -> "Finished"
      [] eps = "AET"  -> "After Extra Time"
      [] eps = "PEN"  -> "Penalties"
      [] eps = "POST" -> "Postponed"
      [] eps = "CANC" -> "Cancelled"
      [] eps = "ABD"  -> "Abandoned"
      [] eps = "LIVE" -> "Live"
      [] OTHER        -> IF eps /= "" THEN eps ELSE "Unknown"

\* mutant of Rank: an absent rank becomes the number 50
Rank_Sentinel(team_list) ==
    IF Len(team_list) > 0 /\ team_list[1].Rnk /= None THEN team_list[1].Rnk ELSE Some(50)

\* home_position / away_position: None, or event['T1'][0].get('Rnk', None)
Rank(team_list) == IF Len(team_list) > 0 THEN team_list[1].Rnk ELSE None

_is_major_match(competition) ==
    \E major \in MAJOR_COMPETITIONS : Contains(competition, major)

\* the match dict built in the loop body of _parse_matches
ParseEvent(competition_name, event) ==
    [id             |-> IF event.Eid = None THEN "" ELSE event.Eid[1],
     competition    |-> competition_name,
     home_team      |-> IF Len(event.T1) > 0 THEN event.T1[1].Nm ELSE "Unknown",
     away_team      |-> IF Len(event.T2) > 0 THEN event.T2[1].Nm ELSE "Unknown",
     home_score     |-> IF event.Tr1 = None THEN "-" ELSE event.Tr1[1],
     away_score     |-> IF event.Tr2 = None THEN "-" ELSE event.Tr2[1],
     status         |-> _get_match_status(event),
     start_time     |-> _parse_time(event.Esd),
     start_time_raw |-> event.Esd,
     is_live        |-> event.Eps \in {"HT", "1H", "2H", "LIVE"},
     minute         |-> event.Eps,
     is_major       |-> _is_major_match(competition_name),
     home_position  |-> Rank(event.T1),
     away_position  |-> Rank(event.T2)]

RECURSIVE ParseEvents(_, _, _)
ParseEvents(competition_name, events, i) ==
    IF i > Len(events) THEN <<>>
    ELSE <<ParseEvent(competition_name, events[i])>>
         \o ParseEvents(competition_name, events, i + 1)

RECURSIVE ParseStages(_, _)
ParseStages(stages, i) ==
    IF i > Len(stages) THEN <<>>
    ELSE ParseEvents(stages[i].Snm, stages[i].Events, 1) \o ParseStages(stages, i + 1)

_parse_matches(stages) == ParseStages(stages, 1)

\* A response of the fixture provider to session.get: a transport or HTTP
\* failure, a body that is not JSON, a JSON null / empty object, an object
\* without 'Stages', or an object with 'Stages'.
Response(kind, stages) == [kind |-> kind, Stages |-> stages]

ResponseKinds == {"RequestException", "JSONDecodeError", "empty", "no_stages", "stages"}

\* the optional parsed JSON document that _make_request returns
_make_request(resp) ==
    CASE resp.kind = "RequestException" -> None
      [] resp.kind = "JSONDecodeError"  -> None
      [] OTHER                          -> Some(resp)

\* "if data and 'Stages' in data: return self._parse_matches(data['Stages'])"
ParseResponse(data) ==
    IF data /= None /\ data[1].kind = "stages"
    THEN Some(_parse_matches(data[1].Stages))
    ELSE None

get_matches_by_date(resp) == ParseResponse(_make_request(resp))

get_live_matches(resp) == ParseResponse(_make_request(resp))

\* "if not matches" / "if live_matches" on an optional list
NonEmpty(ms) == ms /= None /\ Len(ms[1]) > 0

(***************************************************************************)
(* ContentGenerator                                                        *)
(***************************************************************************)
\* mutant of generate_prediction: a finished match gets a prediction of its own
generate_prediction_ByStatus(match) ==
    IF match.status = "Finished" THEN <<"Close Match - Draw Possible", "">>
    ELSE IF Truthy(match.home_position) /\ Truthy(match.away_position)
    THEN IF match.home_position[1] < match.away_position[1]
         THEN <<"to Win or Draw (Home Advantage)", match.home_team>>
         ELSE IF match.away_position[1] < match.home_position[1]
         THEN <<"to Win (Away Form)", match.away_team>>
         ELSE <<"Close Match - Draw Possible", "">>
    ELSE IF match.is_major
    THEN <<"High-Scoring Match Expected!", "">>
    ELSE <<"Home Team Slight Favorite", "">>

generate_prediction(match) ==
    LET home_pos == match.home_position
        away_pos == match.away_position
    IN  IF Truthy(home_pos) /\ Truthy(away_pos)
        THEN IF home_pos[1] < away_pos[1]
             THEN <<"to Win or Draw (Home Advantage)", match.home_team>>
             ELSE IF away_pos[1] < home_pos[1]
             THEN <<"to Win (Away Form)", match.away_team>>
             ELSE <<"Close Match - Draw Possible", "">>
        ELSE IF match.is_major
        THEN <<"High-Scoring Match Expected!", "">>
        ELSE <<"Home Team Slight Favorite", "">>

NoPrediction == <<"", "">>
NotShown == -2

\* a line of a message: a competition heading, or a match with the fields
\* the template interpolates (NotShown / "" for the fields it does not)
Heading(competition) ==
    [kind |-> "heading", competition |-> competition, time |-> NotShown,
     home |-> "", away |-> "", home_score |-> "", away_score |-> ""]

MatchLine(time, home, away, home_score, away_score) ==
    [kind |-> "match", competition |-> "", time |-> time,
     home |-> home, away |-> away, home_score |-> home_score, away_score |-> away_score]

\* a message: the template's title, its status label, its lines, the
\* prediction and the links it contains
Message(title, label, lines, prediction, links) ==
    [title |-> title, label |-> label, lines |-> lines,
     prediction |-> prediction, links |-> links]

generate_telegram_upcoming_match(match) ==
    Message("UPCOMING MATCH ALERT", "",
            <<Heading(match.competition),
              MatchLine(match.start_time, match.home_team, match.away_team, "", "")>>,
            generate_prediction(match), AFFILIATE_LINKS)

generate_telegram_live_score(match) ==
    Message("SCORE", IF match.is_live THEN "LIVE" ELSE "FINAL",
            <<Heading(match.competition),
              MatchLine(NotShown, match.home_team, match.away_team,
                        match.home_score, match.away_score)>>,
            NoPrediction, AFFILIATE_LINKS)

DigestLimit == 15

RECURSIVE Competitions(_, _, _)
\* the keys of by_competition in insertion order
Competitions(ms, i, seen) ==
    IF i > Len(ms) THEN <<>>
    ELSE IF ms[i].competition \in seen THEN Competitions(ms, i + 1, seen)
    ELSE <<ms[i].competition>> \o Competitions(ms, i + 1, seen \cup {ms[i].competition})

RECURSIVE SummaryLines(_, _)
SummaryLines(ms, i) ==
    IF i > Len(ms) THEN <<>>
    ELSE <<MatchLine(ms[i].start_time, ms[i].home_team, ms[i].away_team, "", "")>>
         \o SummaryLines(ms, i + 1)

RECURSIVE SummaryGroups(_, _, _)
\* the loop over by_competition.items()
SummaryGroups(ms, comps, i) ==
    IF i > Len(comps) THEN <<>>
    ELSE LET InComp(m) == m.competition = comps[i] IN
         <<Heading(comps[i])>> \o SummaryLines(Filter(ms, InComp), 1)
         \o SummaryGroups(ms, comps, i + 1)

\* mutant of generate_telegram_daily_summary: the list is not limited
generate_telegram_daily_summary_NoLimit(ms) ==
    Message("FOOTBALL MATCHES TODAY", "",
            SummaryGroups(ms, Competitions(ms, 1, {}), 1),
            NoPrediction, AFFILIATE_LINKS)

generate_telegram_daily_summary(ms) ==
    LET first == Take(ms, DigestLimit) IN
    Message("FOOTBALL MATCHES TODAY", "",
            SummaryGroups(first, Competitions(first, 1, {}), 1),
            NoPrediction, AFFILIATE_LINKS)

\* mutant of generate_facebook_teaser: the teaser is the Telegram message
generate_facebook_teaser_Telegram(match, post_type) ==
    IF post_type = "upcoming" THEN generate_telegram_upcoming_match(match)
    ELSE generate_telegram_live_score(match)

generate_facebook_teaser(match, post_type) ==
    IF post_type = "upcoming"
    THEN Message("BIG MATCH ALERT!", "",
                 <<Heading(match.competition),
                   MatchLine(match.start_time, match.home_team, match.away_team, "", "")>>,
                 NoPrediction, {TELEGRAM_CHANNEL_LINK})
    ELSE IF post_type = "live"
    THEN Message("LIVE NOW!", "",
                 <<Heading(match.competition),
                   MatchLine(NotShown, match.home_team, match.away_team,
                             match.home_score, match.away_score)>>,
                 NoPrediction, {TELEGRAM_CHANNEL_LINK})
    ELSE Message("FULL TIME", "",
                 <<Heading(match.competition),
                   MatchLine(NotShown, match.home_team, match.away_team,
                             match.home_score, match.away_score)>>,
                 NoPrediction, {TELEGRAM_CHANNEL_LINK})

RECURSIVE PreviewLines(_, _)
PreviewLines(ms, i) ==
    IF i > Len(ms) THEN <<>>
    ELSE <<MatchLine(NotShown, ms[i].home_team, ms[i].away_team, "", "")>>
         \o PreviewLines(ms, i + 1)

IsMajor(m) == m.is_major

generate_facebook_daily_teaser(ms) ==
    LET major_matches == Take(Filter(ms, IsMajor), 3)
        match_preview == PreviewLines(major_matches, 1)
    IN  Message("TODAY'S HOT MATCHES!", "",
                IF match_preview /= <<>> THEN match_preview
                ELSE PreviewLines(Take(ms, 3), 1),
                NoPrediction, {TELEGRAM_CHANNEL_LINK})

(***************************************************************************)
(* TelegramClient, FacebookClient                                          *)
(***************************************************************************)
\* what happens to a requests.post: delivered, answered with an API error
\* (ok false / no id), or failed with a RequestException
SendOutcomes == {"ok", "api_error", "RequestException"}

send_message(outcome) == outcome = "ok"

post_message(outcome) == outcome = "ok"

Sent(channel, step, message, result) ==
    [channel |-> channel, step |-> step, message |-> message, result |-> result]
(***************************************************************************)
(* FootballBot                                                             *)
(***************************************************************************)
\* a key of posted_matches: the prefix and the id it is concatenated with
UpcomingKey(match) == <<"", match.id>>
FinishedKey(match) == <<"finished-", match.id>>

_get_upcoming_matches(ms, now_gmt) ==
    LET InWindow(match) ==
            /\ match.status = "Upcoming"
            /\ match.start_time_raw /= None
            /\ StampValid(match.start_time_raw[1])
            /\ LET time_until == StampMinutes(match.start_time_raw[1]) - now_gmt
               IN  30 <= time_until /\ time_until <= 120
    IN  Filter(ms, InWindow)

\* run(): major_matches
MajorMatches(ms) == Filter(ms, IsMajor)

RECURSIVE InsertByTime(_, _)
InsertByTime(m, s) ==
    IF s = <<>> THEN <<m>>
    ELSE IF m.start_time < s[1].start_time THEN <<m>> \o s
    ELSE <<s[1]>> \o InsertByTime(m, Tail(s))

RECURSIVE SortByTime(_)
SortByTime(s) == IF s = <<>> THEN <<>> ELSE InsertByTime(s[1], SortByTime(Tail(s)))

\* mutant of SummaryMatches: the summary list is sorted by kickoff time
SummaryMatches_Sorted(ms) ==
    SortByTime(IF MajorMatches(ms) /= <<>> THEN MajorMatches(ms) ELSE Take(ms, 10))

\* run(): summary_matches
SummaryMatches(ms) ==
    IF MajorMatches(ms) /= <<>> THEN MajorMatches(ms) ELSE Take(ms, 10)

\* run(): upcoming[:3]
UpcomingToPost(ms, now_gmt) == Take(_get_upcoming_matches(MajorMatches(ms), now_gmt), 3)

\* run(): major_live[:2]
LiveToPost(live) == IF NonEmpty(live) THEN Take(Filter(live[1], IsMajor), 2) ELSE <<>>

\* run(): finished[:2]
FinishedToPost(ms) ==
    LET Done(m) == m.status = "Finished" /\ m.is_major IN Take(Filter(ms, Done), 2)

\* The posting steps: the new posted_matches and the requests.post calls
\* the step issues, for the outcomes tg and fb of the two sends.
Step(posted, sends) == [posted |-> posted, sends |-> sends]

_post_daily_summary(ms, posted, tg, fb) ==
    IF ms = <<>> THEN Step(posted, <<>>)
    ELSE Step(posted,
              <<Sent("telegram", "daily", generate_telegram_daily_summary(ms), send_message(tg)),
                Sent("facebook", "daily", generate_facebook_daily_teaser(ms), post_message(fb))>>)

\* mutant of _post_upcoming_match: Facebook is posted to only after Telegram
\* accepted the message
_post_upcoming_match_Chained(match, posted, tg, fb) ==
    IF UpcomingKey(match) \in posted THEN Step(posted, <<>>)
    ELSE IF send_message(tg)
    THEN Step(posted \cup {UpcomingKey(match)},
              <<Sent("telegram", "upcoming", generate_telegram_upcoming_match(match), TRUE),
                Sent("facebook", "upcoming", generate_facebook_teaser(match, "upcoming"), post_message(fb))>>)
    ELSE Step(posted,
              <<Sent("telegram", "upcoming", generate_telegram_upcoming_match(match), FALSE)>>)

_post_upcoming_match(match, posted, tg, fb) ==
    IF UpcomingKey(match) \in posted THEN Step(posted, <<>>)
    ELSE Step(IF send_message(tg) THEN posted \cup {UpcomingKey(match)} ELSE posted,
              <<Sent("telegram", "upcoming", generate_telegram_upcoming_match(match), send_message(tg)),
                Sent("facebook", "upcoming", generate_facebook_teaser(match, "upcoming"), post_message(fb))>>)

_post_live_score(match, posted, tg) ==
    Step(posted,
         <<Sent("telegram", "live", generate_telegram_live_score(match), send_message(tg))>>)

_post_finished_match(match, posted, tg, fb) ==
    IF FinishedKey(match) \in posted THEN Step(posted, <<>>)
    ELSE Step(IF send_message(tg) THEN posted \cup {FinishedKey(match)} ELSE posted,
              <<Sent("telegram", "finished", generate_telegram_live_score(match), send_message(tg)),
                Sent("facebook", "finished", generate_facebook_teaser(match, "finished"), post_message(fb))>>)

(***************************************************************************)
(* Inputs                                                                  *)
(***************************************************************************)
\* 08:00 (the hour of the daily summary) and 17:45
NowSet == {8 * 60, 17 * 60 + 45}

SampleStages ==
    { Stage("Premier League",
            <<Event(Some("101"), <<Team("Arsenal", Some(1))>>, <<Team("Chelsea", Some(2))>>,
                    "NS", Some(1830), None, None)>>),
      Stage("Premier League",
            <<Event(Some("101"), <<Team("Arsenal", None)>>, <<Team("Chelsea", None)>>,
                    "NS", Some(930), None, None)>>),
      Stage("Premier League",
            <<Event(Some("101"), <<Team("Arsenal", Some(2))>>, <<Team("Chelsea", Some(1))>>,
                    "FT", Some(1500), Some("2"), Some("1"))>>),
      Stage("La Liga",
            <<Event(None, <<Team("Sevilla", None)>>, <<Team("Betis", Some(3))>>,
                    "FT", None, Some("0"), Some("0")),
              Event(Some("202"), <<Team("Getafe", Some(3))>>, <<Team("Osasuna", Some(3))>>,
                    "NS", Some(2575), None, None),
              Event(None, <<Team("Valencia", Some(2))>>, <<Team("Villarreal", Some(1))>>,
                    "FT", Some(1400), Some("1"), Some("3"))>>),
      Stage("Club Friendlies",
            <<Event(Some("303"), <<Team("Leeds", None)>>, <<Team("Fulham", Some(1))>>,
                    "NS", Some(1830), None, None)>>) }

LiveStages ==
    { Stage("Premier League",
            <<Event(Some("101"), <<Team("Arsenal", Some(1))>>, <<Team("Chelsea", Some(2))>>,
                    "1H", Some(1700), Some("1"), Some("0")),
              Event(Some("105"), <<Team("Liverpool", Some(1))>>, <<Team("Everton", Some(2))>>,
                    "ET", Some(1500), Some("1"), Some("1"))>>),
      Stage("Club Friendlies",
            <<Event(Some("303"), <<Team("Leeds", None)>>, <<Team("Fulham", Some(1))>>,
                    "HT", Some(1615), Some("0"), Some("0"))>>) }

Failures == {Response(k, <<>>) : k \in ResponseKinds \ {"stages"}}

\* the payloads of list-by-date: shorter ones when deliveries are recorded
DateResponses ==
    Failures \cup {Response("stages", p) :
                     p \in SeqsUpTo(SampleStages, IF audit THEN MaxAuditStages ELSE MaxStages)}

LiveResponses == Failures \cup {Response("stages", p) : p \in SeqsUpTo(LiveStages, 1)}

(***************************************************************************)
(* main() and the steps of run()                                           *)
(***************************************************************************)
\* the posts of a step that were delivered: the channel and the match line
Delivered(sends) ==
    {[channel |-> sends[i].channel, line |-> sends[i].message.lines[2]] :
        i \in {j \in DOMAIN sends : sends[j].result}}

\* the alerts and results delivered so far, and by which process: this one
\* or an earlier one
Report(d, earlier) == [channel |-> d.channel, line |-> d.line, earlier |-> earlier]

\* reported after a posting step that issued sends
Record(sends) ==
    IF audit THEN reported \cup {Report(d, FALSE) : d \in Delivered(sends)} ELSE reported

NoResponse == Response("none", <<>>)

\* mutants of AfterFetch: run() goes on whatever the first fetch returned;
\* run() returns only on None, not on an empty list
AfterFetch_NoReturn(ms) == "fetch_live"

AfterFetch_NoneOnly(ms) == IF ms /= None THEN "fetch_live" ELSE "idle"

\* "if not matches: return": where run() goes after the first fetch
AfterFetch(ms) == IF NonEmpty(ms) THEN "fetch_live" ELSE "idle"

\* main(): a new process, with a new FootballBot, starts run()
Main ==
    /\ pc = "idle"
    /\ runs < MaxRuns
    /\ runs' = runs + 1
    /\ now' \in NowSet
    /\ posted_matches' = {}
    /\ matches' = None
    /\ live_matches' = None
    /\ requests' = 0
    /\ outbox' = <<>>
    /\ idx' = 1
    /\ pc' = "fetch"
    /\ response' = NoResponse
    /\ reported' = {Report(d, TRUE) : d \in reported}
    /\ UNCHANGED <<audit, gen_in, gen_out>>

\* matches = self.api.get_matches_by_date(today); if not matches: return
FetchByDate ==
    /\ pc = "fetch"
    /\ \E resp \in DateResponses :
          /\ response' = resp
          /\ matches' = get_matches_by_date(resp)
          /\ requests' = requests + 1
          /\ pc' = AfterFetch(get_matches_by_date(resp))
    /\ UNCHANGED <<now, posted_matches, live_matches, idx, outbox, runs, audit, reported,
                   gen_in, gen_out>>

\* live_matches = self.api.get_live_matches()
FetchLive ==
    /\ pc = "fetch_live"
    /\ \E resp \in LiveResponses :
          /\ live_matches' = get_live_matches(resp)
          /\ requests' = requests + 1
    /\ pc' = "summary"
    /\ UNCHANGED <<now, posted_matches, matches, idx, response, outbox, runs, audit, reported,
                   gen_in, gen_out>>

\* 1. Morning summary (8 AM GMT)
DailySummary ==
    /\ pc = "summary"
    /\ \/ /\ now \div 60 = 8
          /\ \E tg \in SendOutcomes, fb \in SendOutcomes :
                LET step == _post_daily_summary(SummaryMatches(matches[1]), posted_matches, tg, fb)
                IN  /\ outbox' = step.sends
                    /\ posted_matches' = step.posted
       \/ /\ now \div 60 /= 8
          /\ UNCHANGED <<outbox, posted_matches>>
    /\ pc' = "upcoming"
    /\ idx' = 1
    /\ UNCHANGED <<now, matches, live_matches, requests, response, runs, audit, reported, gen_in, gen_out>>

\* 2. for match in upcoming[:3]: self._post_upcoming_match(match)
PostUpcoming ==
    /\ pc = "upcoming"
    /\ LET upcoming == UpcomingToPost(matches[1], now) IN
       \/ /\ idx <= Len(upcoming)
          /\ \E tg \in SendOutcomes, fb \in SendOutcomes :
                LET step == _post_upcoming_match(upcoming[idx], posted_matches, tg, fb)
                IN  /\ outbox' = step.sends
                    /\ posted_matches' = step.posted
                    /\ reported' = Record(step.sends)
          /\ idx' = idx + 1
          /\ pc' = pc
       \/ /\ idx > Len(upcoming)
          /\ idx' = 1
          /\ pc' = "live"
          /\ UNCHANGED <<outbox, posted_matches, reported>>
    /\ UNCHANGED <<now, matches, live_matches, requests, response, runs, audit, gen_in, gen_out>>

\* 3. for match in major_live[:2]: self._post_live_score(match)
PostLive ==
    /\ pc = "live"
    /\ LET major_live == LiveToPost(live_matches) IN
       \/ /\ idx <= Len(major_live)
          /\ \E tg \in SendOutcomes :
                LET step == _post_live_score(major_live[idx], posted_matches, tg)
                IN  /\ outbox' = step.sends
                    /\ posted_matches' = step.posted
          /\ idx' = idx + 1
          /\ pc' = pc
       \/ /\ idx > Len(major_live)
          /\ idx' = 1
          /\ pc' = "finished"
          /\ UNCHANGED <<outbox, posted_matches>>
    /\ UNCHANGED <<now, matches, live_matches, requests, response, runs, audit, reported, gen_in, gen_out>>

\* 4. for match in finished[:2]: self._post_finished_match(match)
PostFinished ==
    /\ pc = "finished"
    /\ LET finished == FinishedToPost(matches[1]) IN
       \/ /\ idx <= Len(finished)
          /\ \E tg \in SendOutcomes, fb \in SendOutcomes :
                LET step == _post_finished_match(finished[idx], posted_matches, tg, fb)
                IN  /\ outbox' = step.sends
                    /\ posted_matches' = step.posted
                    /\ reported' = Record(step.sends)
          /\ idx' = idx + 1
          /\ pc' = pc
       \/ /\ idx > Len(finished)
          /\ idx' = 1
          /\ pc' = "idle"
          /\ UNCHANGED <<outbox, posted_matches, reported>>
    /\ UNCHANGED <<now, matches, live_matches, requests, response, runs, audit, gen_in, gen_out>>

Init ==
    /\ pc = "idle"
    /\ now = 0
    /\ posted_matches = {}
    /\ matches = None
    /\ live_matches = None
    /\ idx = 1
    /\ requests = 0
    /\ response = NoResponse
    /\ outbox = <<>>
    /\ runs = 0
    /\ audit = FALSE
    /\ reported = {}
    /\ gen_in = <<>>
    /\ gen_out = <<>>

Next ==
    \/ Main
    \/ FetchByDate
    \/ FetchLive
    \/ DailySummary
    \/ PostUpcoming
    \/ PostLive
    \/ PostFinished

Spec == Init /\ [][Next]_vars

\* the same processes, with the deliveries of earlier processes recorded
InitAudit ==
    /\ pc = "idle"
    /\ now = 0
    /\ posted_matches = {}
    /\ matches = None
    /\ live_matches = None
    /\ idx = 1
    /\ requests = 0
    /\ response = NoResponse
    /\ outbox = <<>>
    /\ runs = 0
    /\ audit = TRUE
    /\ reported = {}
    /\ gen_in = <<>>
    /\ gen_out = <<>>

SpecAudit == InitAudit /\ [][Next]_vars
(***************************************************************************)
(* Properties of run()                                                     *)
(***************************************************************************)
Posting == {"summary", "upcoming", "live", "finished"}

\* C1 as stated: a run issues at most one upstream request; after the
\* first fetch of a run no further request is issued.
C1_FetchCeilingOne == requests <= 1

\* C1 amended: a run issues at most two upstream requests, the first by
\* get_matches_by_date and the second by get_live_matches, which is called
\* only when the first fetch returned at least one match; every posting
\* step runs after exactly these two requests.
C1_AtMostTwoFetches ==
    /\ requests <= 2
    /\ requests = 2 => NonEmpty(matches)
    /\ pc = "fetch_live" => requests = 1
    /\ pc \in Posting => requests = 2

C1_SecondFetchReturnsData == requests = 2 /\ NonEmpty(live_matches)

FetchFailed(resp) ==
    \/ resp.kind \in {"RequestException", "JSONDecodeError", "empty", "no_stages"}
    \/ /\ resp.kind = "stages"
       /\ \A i \in DOMAIN resp.Stages : resp.Stages[i].Events = <<>>

RECURSIVE RepeatSeq(_, _)
RepeatSeq(s, n) == IF n = 0 THEN <<>> ELSE s \o RepeatSeq(s, n - 1)

Fixtures == {<<"Arsenal", "Chelsea">>, <<"Leeds", "Fulham">>}
Ranks == {None, Some(1), Some(2)}

WideMatches ==
    {ParseEvent(c, Event(eid, <<Team(f[1], r1)>>, <<Team(f[2], r2)>>, eps, esd, None, None)) :
        c \in CompetitionNames, f \in Fixtures, r1 \in Ranks, r2 \in Ranks,
        eid \in {None, Some("101")}, eps \in {"NS", "FT"}, esd \in {None, Some(930)}}

SampleMatches ==
    {_parse_matches(<<st>>)[1] : st \in SampleStages \cup LiveStages}

GenInit ==
    /\ pc = "gen"
    /\ now = 0
    /\ posted_matches = {}
    /\ matches = None
    /\ live_matches = None
    /\ idx = 1
    /\ requests = 0
    /\ response = NoResponse
    /\ outbox = <<>>
    /\ runs = 0
    /\ audit = FALSE
    /\ reported = {}
    /\ gen_in = <<>>
    /\ gen_out = <<>>

\* generate_telegram_daily_summary(summary_matches), as run() calls it, for
\* a payload that repeats its stages
GenDigest ==
    /\ pc = "gen"
    /\ \E p \in SeqsUpTo(SampleStages, MaxStages), n \in 1..MaxRepeat :
          LET ms == get_matches_by_date(Response("stages", RepeatSeq(p, n))) IN
          /\ NonEmpty(ms)
          /\ gen_in' = SummaryMatches(ms[1])
          /\ gen_out' = <<generate_telegram_daily_summary(SummaryMatches(ms[1]))>>
    /\ pc' = "digest"
    /\ UNCHANGED <<now, posted_matches, matches, live_matches, idx, requests,
                   response, outbox, runs, audit, reported>>

\* generate_prediction of two match records
GenPredict ==
    /\ pc = "gen"
    /\ \E m1 \in WideMatches, m2 \in SampleMatches :
          /\ gen_in' = <<m1, m2>>
          /\ gen_out' = <<generate_prediction(m1), generate_prediction(m2)>>
    /\ pc' = "predict"
    /\ UNCHANGED <<now, posted_matches, matches, live_matches, idx, requests,
                   response, outbox, runs, audit, reported>>

GenNext == GenDigest \/ GenPredict

SpecGen == GenInit /\ [][GenNext]_vars

RECURSIVE EventsOf(_)
\* the events of a payload, in the provider's order
EventsOf(stages) ==
    IF stages = <<>> THEN <<>> ELSE stages[1].Events \o EventsOf(Tail(stages))

BadStamp(esd) == esd = None \/ ~StampValid(esd[1])

\* the list of the posting loop at pc, and the match of its last step
LoopList ==
    CASE pc = "upcoming" -> UpcomingToPost(matches[1], now)
      [] pc = "live"     -> LiveToPost(live_matches)
      [] pc = "finished" -> FinishedToPost(matches[1])
      [] OTHER           -> <<>>

\* a posting loop has just posted (not skipped) the match LoopList[idx - 1]
JustPosted(step) ==
    /\ pc \in {"upcoming", "live", "finished"}
    /\ idx > 1
    /\ outbox /= <<>>
    /\ outbox[1].step = step

\* the daily summary has just been posted
JustPostedSummary == pc = "upcoming" /\ idx = 1 /\ outbox /= <<>>

\* C2 as stated: an event whose kickoff stamp is missing or unparseable
\* yields no match record.
C2_UnparseableDropped ==
    matches /= None =>
        \A i \in DOMAIN matches[1] : ~BadStamp(matches[1][i].start_time_raw)

\* C2 amended: every event of the payload yields a match record; an event
\* whose kickoff stamp is missing or unparseable gets the placeholder time
\* "TBD" (and only such an event does), and it is never among the upcoming
\* matches; it can be among the major, finished and daily-summary matches.
C2_UnparseableGetsPlaceholder ==
    response.kind = "stages" =>
        LET events == EventsOf(response.Stages) IN
        /\ Len(matches[1]) = Len(events)
        /\ \A k \in DOMAIN events :
              (matches[1][k].start_time = TBD) <=> BadStamp(events[k].Esd)
        /\ \A t \in NowSet :
              LET upcoming == _get_upcoming_matches(matches[1], t) IN
              \A j \in DOMAIN upcoming : upcoming[j].start_time /= TBD

C2_PlaceholderInSummaryAndFinished ==
    /\ JustPostedSummary
    /\ \E j \in DOMAIN outbox[1].message.lines :
          /\ outbox[1].message.lines[j].kind = "match"
          /\ outbox[1].message.lines[j].time = TBD
    /\ \E j \in DOMAIN FinishedToPost(matches[1]) :
          FinishedToPost(matches[1])[j].start_time = TBD

\* C9 as stated: every team of a match record has an integer rank, the
\* sentinel when the payload has none.
C9_SentinelRank ==
    matches /= None =>
        \A i \in DOMAIN matches[1] :
            /\ matches[1][i].home_position /= None
            /\ matches[1][i].away_position /= None

DefaultPrediction(m) ==
    IF m.is_major THEN <<"High-Scoring Match Expected!", "">>
    ELSE <<"Home Team Slight Favorite", "">>

\* C9 amended: a team whose rank is absent from the payload has no rank
\* (None) in its match record, not an integer sentinel; the event is still
\* parsed into a match, and the prediction of a match that lacks a rank is
\* the default one of its kind of competition.
C9_AbsentRankIsNone ==
    /\ response.kind = "stages" =>
          LET events == EventsOf(response.Stages) IN
          /\ Len(matches[1]) = Len(events)
          /\ \A k \in DOMAIN events :
                /\ events[k].T1[1].Rnk = None => matches[1][k].home_position = None
                /\ events[k].T2[1].Rnk = None => matches[1][k].away_position = None
    /\ JustPosted("upcoming") =>
          LET m == LoopList[idx - 1] IN
          (m.home_position = None \/ m.away_position = None)
              => outbox[1].message.prediction = DefaultPrediction(m)

C9_UnrankedMatchPredicted ==
    /\ JustPosted("upcoming")
    /\ LoopList[idx - 1].home_position = None
    /\ outbox[1].result
\* the priority of a match: the only classification run() makes is
\* is_major, so a major match is of the first tier and any other of the last
Tier(m) == IF m.is_major THEN 1 ELSE 3

PriorityOrdered(list) ==
    \A i, j \in DOMAIN list :
        i < j => \/ Tier(list[i]) < Tier(list[j])
                 \/ /\ Tier(list[i]) = Tier(list[j])
                    /\ list[i].start_time <= list[j].start_time

RECURSIVE IsSubsequence(_, _)
\* list is s with some elements left out, the others in the order of s
IsSubsequence(list, s) ==
    IF list = <<>> THEN TRUE
    ELSE IF s = <<>> THEN FALSE
    ELSE IF list[1] = s[1] THEN IsSubsequence(Tail(list), Tail(s))
    ELSE IsSubsequence(list, Tail(s))

\* C5 as stated: the matches handed to the daily summary and to the
\* posting loops are sorted by tier and, within a tier, by kickoff time.
C5_PriorityOrdered ==
    pc \in Posting =>
        /\ now \div 60 = 8 => PriorityOrdered(SummaryMatches(matches[1]))
        /\ PriorityOrdered(UpcomingToPost(matches[1], now))
        /\ PriorityOrdered(FinishedToPost(matches[1]))

\* C5 amended: the matches handed to the daily summary and to the posting
\* loops are in the order the provider returned them (each list is the
\* provider's list with matches left out, never reordered); they are not
\* sorted by tier or by kickoff time.
C5_ProviderOrderKept ==
    pc \in Posting =>
        /\ IsSubsequence(SummaryMatches(matches[1]), matches[1])
        /\ IsSubsequence(UpcomingToPost(matches[1], now), matches[1])
        /\ IsSubsequence(FinishedToPost(matches[1]), matches[1])
        /\ NonEmpty(live_matches) => IsSubsequence(LiveToPost(live_matches), live_matches[1])

C5_SummaryPostedLaterKickoffFirst ==
    /\ JustPostedSummary
    /\ Len(SummaryMatches(matches[1])) = 2
    /\ SummaryMatches(matches[1])[1].start_time > SummaryMatches(matches[1])[2].start_time
    /\ SummaryMatches(matches[1])[2].start_time /= TBD

Channels(sends) == [i \in DOMAIN sends |-> sends[i].channel]

\* C3: a posting step for both channels that is not skipped as a duplicate
\* attempts a Telegram send and then a Facebook post, whatever the outcome
\* of either, and the loop goes on to its next match.
C3_BothChannelsAttempted ==
    [][ /\ (pc = "summary" /\ now \div 60 = 8)
            => Channels(outbox') = <<"telegram", "facebook">> /\ pc' = "upcoming"
        /\ (pc = "upcoming" /\ idx <= Len(LoopList)
                /\ UpcomingKey(LoopList[idx]) \notin posted_matches)
            => /\ Channels(outbox') = <<"telegram", "facebook">>
               /\ idx' = idx + 1 /\ pc' = pc
        /\ (pc = "finished" /\ idx <= Len(LoopList)
                /\ FinishedKey(LoopList[idx]) \notin posted_matches)
            => /\ Channels(outbox') = <<"telegram", "facebook">>
               /\ idx' = idx + 1 /\ pc' = pc
      ]_vars

C3_TelegramFailedFacebookPosted ==
    /\ JustPosted("upcoming")
    /\ idx <= Len(LoopList)
    /\ Len(outbox) = 2
    /\ ~outbox[1].result
    /\ outbox[2].channel = "facebook" /\ outbox[2].result

\* C10: a message sent to Facebook contains no affiliate link, only the
\* Telegram channel link; the affiliate links are in the Telegram messages.
C10_NoAffiliateOnFacebook ==
    \A i \in DOMAIN outbox :
        /\ outbox[i].channel = "facebook"
              => /\ outbox[i].message.links \cap AFFILIATE_LINKS = {}
                 /\ outbox[i].message.links = {TELEGRAM_CHANNEL_LINK}
        /\ outbox[i].channel = "telegram"
              => AFFILIATE_LINKS \subseteq outbox[i].message.links

C10_FacebookTeaserPosted ==
    /\ JustPosted("finished")
    /\ Len(outbox) = 2
    /\ outbox[2].channel = "facebook" /\ outbox[2].result

\* C8: a finished result that an earlier process has delivered to a channel
\* is not delivered to that channel again by a later process.
C8_ReportedOnce ==
    JustPosted("finished") =>
        \A d \in Delivered(outbox) : Report(d, TRUE) \notin reported
(***************************************************************************)
(* Properties of the content generators (SpecGen)                          *)
(***************************************************************************)
Min(a, b) == IF a < b THEN a ELSE b

MatchLinesOf(lines) == {j \in DOMAIN lines : lines[j].kind = "match"}

HeadingsOf(lines) == {j \in DOMAIN lines : lines[j].kind = "heading"}

\* the competition whose heading line j stands under
Section(lines, j) ==
    LET above == {h \in HeadingsOf(lines) : h < j} IN
    IF above = {} THEN ""
    ELSE lines[CHOOSE h \in above : \A g \in above : g <= h].competition

Rendered(m) == MatchLine(m.start_time, m.home_team, m.away_team, "", "")

\* the digest of ms lists the first K matches of ms, each once and under
\* the heading of its competition, and no competition has two headings
DigestOfFirst(lines, ms, K) ==
    LET first == 1..Min(Len(ms), K) IN
    /\ Cardinality(MatchLinesOf(lines)) = Cardinality(first)
    /\ \A i \in first :
          Cardinality({j \in MatchLinesOf(lines) :
                          /\ lines[j] = Rendered(ms[i])
                          /\ Section(lines, j) = ms[i].competition})
            = Cardinality({k \in first : /\ Rendered(ms[k]) = Rendered(ms[i])
                                         /\ ms[k].competition = ms[i].competition})
    /\ \A g, h \in HeadingsOf(lines) :
          lines[g].competition = lines[h].competition => g = h
    /\ \A h \in HeadingsOf(lines) :
          \E i \in first : ms[i].competition = lines[h].competition

\* C6 as stated: the digest lists the first 5 matches of its input.
C6_DigestOfFirstFive ==
    pc = "digest" => DigestOfFirst(gen_out[1].lines, gen_in, 5)

\* C6 amended: the digest lists the first 15 matches of its input and no
\* other, each exactly once and under the heading of its own competition,
\* and each competition heading is emitted once.
C6_DigestOfFirstFifteen ==
    pc = "digest" => DigestOfFirst(gen_out[1].lines, gen_in, DigestLimit)

C6_LongInputTwoCompetitions ==
    /\ pc = "digest"
    /\ Len(gen_in) > DigestLimit
    /\ Cardinality(HeadingsOf(gen_out[1].lines)) = 2

SameFixture(m1, m2) ==
    /\ m1.home_team = m2.home_team
    /\ m1.away_team = m2.away_team
    /\ m1.is_major = m2.is_major

\* C7 as stated: two matches with the same home and away team and the same
\* is_major tag get the same prediction.
C7_PredictionFromNamesOnly ==
    pc = "predict" =>
        (SameFixture(gen_in[1], gen_in[2]) => gen_out[1] = gen_out[2])

\* C7 amended: two matches with the same home and away team, the same
\* is_major tag and the same team ranks get the same prediction, whatever
\* else differs between them; the ranks of the payload are an input of the
\* prediction.
C7_PredictionFromNamesAndRanks ==
    pc = "predict" =>
        (/\ SameFixture(gen_in[1], gen_in[2])
         /\ gen_in[1].home_position = gen_in[2].home_position
         /\ gen_in[1].away_position = gen_in[2].away_position
         => gen_out[1] = gen_out[2])

C7_SameRanksOtherFieldsDiffer ==
    /\ pc = "predict"
    /\ SameFixture(gen_in[1], gen_in[2])
    /\ gen_in[1].home_position = gen_in[2].home_position
    /\ gen_in[1].away_position = gen_in[2].away_position
    /\ gen_in[1].home_position /= None /\ gen_in[1].away_position /= None
    /\ gen_in[1].status /= gen_in[2].status
    /\ gen_in[1].id /= gen_in[2].id

(***************************************************************************)
(* Properties of the upcoming window and of duplicate suppression          *)
(***************************************************************************)
\* the minutes from now to the kickoff of a match whose stamp parses
MinutesUntil(m) == StampMinutes(m.start_time_raw[1]) - now

Occurs(m, list) == \E j \in DOMAIN list : list[j] = m

\* C11: _get_upcoming_matches returns exactly the matches of status
\* 'Upcoming' whose kickoff is between 1 and 2 hours after now.
C11_WindowOneToTwoHours ==
    pc \in Posting =>
        LET major == MajorMatches(matches[1])
            upcoming == _get_upcoming_matches(major, now)
        IN  \A i \in DOMAIN major :
                Occurs(major[i], upcoming) <=>
                    /\ major[i].status = "Upcoming"
                    /\ ~BadStamp(major[i].start_time_raw)
                    /\ 60 <= MinutesUntil(major[i])
                    /\ MinutesUntil(major[i]) <= 120

\* C12: an upcoming alert that an earlier process has delivered to a
\* channel is not delivered to that channel again by a later process in
\* whose window the same match falls.
C12_UpcomingAlertOnce ==
    JustPosted("upcoming") =>
        \A d \in Delivered(outbox) : Report(d, TRUE) \notin reported

\* a step of the upcoming or finished loop has just skipped LoopList[idx - 1]
\* as already posted
JustSkipped ==
    /\ pc \in {"upcoming", "finished"}
    /\ idx > 1
    /\ outbox = <<>>

SameTeams(m1, m2) ==
    m1.home_team = m2.home_team /\ m1.away_team = m2.away_team

\* C13: a match is skipped as a duplicate only if the same match (the same
\* home and away team) came earlier in the loop of this process; a match
\* between other teams, with or without an event id, does not suppress it.
C13_SkipsOnlySameMatch ==
    JustSkipped =>
        \E k \in 1..(idx - 2) : SameTeams(LoopList[k], LoopList[idx - 1])

\* C14: a score posted by _post_live_score carries the label LIVE, and the
\* label FINAL is only on the posts of _post_finished_match.
C14_FinalOnlyWhenFinished ==
    \A i \in DOMAIN outbox :
        /\ outbox[i].step = "live" => outbox[i].message.label = "LIVE"
        /\ outbox[i].message.label = "FINAL" => outbox[i].step = "finished"
====
